---- MODULE Spec2Model ----
(***************************************************************************)
(* niceconfig: ConfigDict (a dict that takes a list of keys) and Config    *)
(* (defaults, then files, then environment variables merged into one       *)
(* ConfigDict), as written in src/niceconfig/config.py.                    *)
(*                                                                         *)
(* A Python str is a sequence of one-character strings, so that upper(),   *)
(* joining and substring tests are computed.  A Python value is a record   *)
(* with the same fields whatever its type:                                 *)
(*   t  the type: "str", "int", "bool", "list", "dict", "method", "none"   *)
(*   s  the characters of a str                                            *)
(*   n  the number of an int, 0/1 of a bool, the heap address of a dict    *)
(*      that lives on the heap                                             *)
(*   l  the elements (strs) of a list                                      *)
(*   m  the entries of a dict literal (a parsed file, the defaults as the  *)
(*      caller wrote them), each [k |-> str, v |-> value]                  *)
(* Dicts are mutable and shared by reference, so the dicts the program     *)
(* holds live on a heap: a sequence of objects addressed by position.      *)
(***************************************************************************)
EXTENDS Integers, Sequences, FiniteSets, TLC

VARIABLES
    heap,        \* the dicts of the program, by address
    pc,          \* "new" before Config(...), "ready" after it, "failed" if it raised
    store,       \* Config.__dict__['store']: the address of the ConfigDict
    env_prefix,  \* Config.__dict__['env_prefix']
    defaults,    \* the address of the caller's defaults mapping
    defaults0,   \* the defaults as the caller wrote them, before Config(...)
    files,       \* the files argument
    prefix_arg,  \* the env_prefix argument
    environ,     \* os.environ
    nops,        \* operations applied since construction
    last         \* the last operation, its arguments and its outcome

vars == <<heap, pc, store, env_prefix, defaults, defaults0, files, prefix_arg,
          environ, nops, last>>

----------------------------------------------------------------------------
(* Bounds of the model *)

\* the longest list of files handed to Config
MaxFiles == 2
\* the number of operations applied to a constructed Config
MaxOps == 2

----------------------------------------------------------------------------
(* Python values *)

PyStr(chars) == [t |-> "str", s |-> chars, n |-> 0, l |-> <<>>, m |-> <<>>]
PyInt(i) == [t |-> "int", s |-> <<>>, n |-> i, l |-> <<>>, m |-> <<>>]
PyBool(b) == [t |-> "bool", s |-> <<>>, n |-> IF b THEN 1 ELSE 0, l |-> <<>>, m |-> <<>>]
PyList(elems) == [t |-> "list", s |-> <<>>, n |-> 0, l |-> elems, m |-> <<>>]
PyDict(entries) == [t |-> "dict", s |-> <<>>, n |-> 0, l |-> <<>>, m |-> entries]
Ref(id) == [t |-> "dict", s |-> <<>>, n |-> id, l |-> <<>>, m |-> <<>>]
Method == [t |-> "method", s |-> <<>>, n |-> 0, l |-> <<>>, m |-> <<>>]
None == [t |-> "none", s |-> <<>>, n |-> 0, l |-> <<>>, m |-> <<>>]

Entry(k, v) == [k |-> k, v |-> v]

\* an object of the heap: a ConfigDict or a plain dict, its items in insertion
\* order, and the instance attributes (__dict__) a ConfigDict can be given
Obj(cls, items, attrs) == [cls |-> cls, items |-> items, attrs |-> attrs]

\* position of key k among entries (keys are unique), 0 when absent
IndexOf(entries, k) ==
    IF \E i \in 1..Len(entries) : entries[i].k = k
    THEN CHOOSE i \in 1..Len(entries) : entries[i].k = k
    ELSE 0

HasKey(entries, k) == IndexOf(entries, k) # 0

Lookup(entries, k) == entries[IndexOf(entries, k)].v

\* dict.__setitem__: an existing key keeps its position, a new key goes last
Put(entries, k, v) ==
    IF HasKey(entries, k)
    THEN [entries EXCEPT ![IndexOf(entries, k)] = Entry(k, v)]
    ELSE Append(entries, Entry(k, v))

----------------------------------------------------------------------------
(* Python strings *)

\* str.upper() on one character
UpperChar(c) ==
    CASE c = "a" -> "A" [] c = "b" -> "B" [] c = "c" -> "C" [] c = "d" -> "D"
      [] c = "e" -> "E" [] c = "f" -> "F" [] c = "g" -> "G" [] c = "h" -> "H"
      [] c = "i" -> "I" [] c = "j" -> "J" [] c = "k" -> "K" [] c = "l" -> "L"
      [] c = "m" -> "M" [] c = "n" -> "N" [] c = "o" -> "O" [] c = "p" -> "P"
      [] c = "q" -> "Q" [] c = "r" -> "R" [] c = "s" -> "S" [] c = "t" -> "T"
      [] c = "u" -> "U" [] c = "v" -> "V" [] c = "w" -> "W" [] c = "x" -> "X"
      [] c = "y" -> "Y" [] c = "z" -> "Z" [] OTHER -> c

Upper(chars) == [i \in 1..Len(chars) |-> UpperChar(chars[i])]

\* sep.join(parts)
RECURSIVE Join(_, _)
Join(sep, parts) ==
    IF parts = <<>> THEN <<>>
    ELSE IF Len(parts) = 1 THEN parts[1]
    ELSE parts[1] \o sep \o Join(sep, Tail(parts))

\* `sub in text` for two strs
IsSubstring(sub, text) ==
    \E i \in 0..(Len(text) - Len(sub)) : SubSeq(text, i + 1, i + Len(sub)) = sub

----------------------------------------------------------------------------
(* Names *)

K_a == <<"a">>
K_c == <<"c">>
K_b == <<"b">>
K_x == <<"x">>
K_y == <<"y">>
K_get == <<"g", "e", "t">>
K_pop == <<"p", "o", "p">>
K_store == <<"s", "t", "o", "r", "e">>
K_env_prefix == <<"e", "n", "v", "_", "p", "r", "e", "f", "i", "x">>

----------------------------------------------------------------------------
(* Objects: attributes, truth value, membership *)

\* the methods of dict and of list whose names the model's keys can spell;
\* str, int and bool have no attribute of these names
DictMethods == {K_get, K_pop}
ListMethods == {K_pop}

IsObj(h, v) == v.t = "dict" /\ v.n \in 1..Len(h)

\* hasattr(base, name)
HasAttr(h, base, name) ==
    CASE IsObj(h, base) -> name \in DictMethods \/ HasKey(h[base.n].attrs, name)
      [] base.t = "list" -> name \in ListMethods
      [] OTHER -> FALSE

\* getattr(base, name, None): an instance attribute shadows the method
GetAttrOrNone(h, base, name) ==
    CASE IsObj(h, base) /\ HasKey(h[base.n].attrs, name) -> Lookup(h[base.n].attrs, name)
      [] HasAttr(h, base, name) -> Method
      [] OTHER -> None

\* bool(v), as the `or` of rsetattr takes it
Truthy(h, v) ==
    CASE v.t = "str" -> v.s # <<>>
      [] v.t = "int" -> v.n # 0
      [] v.t = "bool" -> v.n = 1
      [] v.t = "list" -> v.l # <<>>
      [] v.t = "dict" -> IF IsObj(h, v) THEN h[v.n].items # <<>> ELSE v.m # <<>>
      [] v.t = "method" -> TRUE
      [] OTHER -> FALSE

\* the outcome of an operation: the heap it leaves, the error it raised
\* ("none" when it returned), the value it returned
Outcome(h, err, val) == [h |-> h, err |-> err, val |-> val]

\* base[key] for a str key: dict.__getitem__ (ConfigDict.__getitem__ hands a str
\* to it), and the TypeError of indexing anything else with a str
Subscript(h, base, key) ==
    IF IsObj(h, base)
    THEN IF HasKey(h[base.n].items, key)
         THEN Outcome(h, "none", Lookup(h[base.n].items, key))
         ELSE Outcome(h, "KeyError", None)
    ELSE Outcome(h, "TypeError", None)

\* setattr(base, name, value) where hasattr(base, name) holds: a ConfigDict has a
\* __dict__ and takes the attribute; a dict's or a list's method is read-only
SetAttrOn(h, base, name, value) ==
    IF IsObj(h, base) /\ h[base.n].cls = "ConfigDict"
    THEN Outcome([h EXCEPT ![base.n].attrs = Put(@, name, value)], "none", None)
    ELSE Outcome(h, "AttributeError", None)

\* `key in base` followed, when it holds, by base[key] = value (the last lines of
\* rsetattr): a dict takes the value under an existing key; a str tests for a
\* substring and a list for an element, and neither takes a str index; an int,
\* a bool and a method are not iterable
SetIfPresent(h, base, key, value) ==
    CASE IsObj(h, base) ->
           IF HasKey(h[base.n].items, key)
           THEN Outcome([h EXCEPT ![base.n].items = Put(@, key, value)], "none", None)
           ELSE Outcome(h, "none", None)
      [] base.t = "str" ->
           IF IsSubstring(key, base.s)
           THEN Outcome(h, "TypeError", None)
           ELSE Outcome(h, "none", None)
      [] base.t = "list" ->
           IF \E i \in 1..Len(base.l) : base.l[i] = key
           THEN Outcome(h, "TypeError", None)
           ELSE Outcome(h, "none", None)
      [] OTHER -> Outcome(h, "TypeError", None)

\* rsetattr as it would be if it made the containers a path is missing
RECURSIVE rsetattr_Create(_, _, _, _)
rsetattr_Create(h, base, path, value) ==
    IF path = <<>> THEN Outcome(h, "ValueError", None)
    ELSE LET key == Head(path)
             child_paths == Tail(path)
             attr == GetAttrOrNone(h, base, key)
             item == Subscript(h, base, key)
             made == Append(h, Obj("dict", <<>>, <<>>))
         IN IF child_paths # <<>>
            THEN IF Truthy(h, attr) THEN rsetattr_Create(h, attr, child_paths, value)
                 ELSE IF item.err = "KeyError"
                 THEN rsetattr_Create([made EXCEPT ![base.n].items = Put(@, key, Ref(Len(made)))],
                                      Ref(Len(made)), child_paths, value)
                 ELSE IF item.err # "none" THEN item
                 ELSE rsetattr_Create(h, item.val, child_paths, value)
            ELSE IF HasAttr(h, base, key) THEN SetAttrOn(h, base, key, value)
                 ELSE SetIfPresent(h, base, key, value)

\* rsetattr(base, path, value)
RECURSIVE rsetattr(_, _, _, _)
rsetattr(h, base, path, value) ==
    IF path = <<>> THEN Outcome(h, "ValueError", None)
    ELSE LET key == Head(path)
             child_paths == Tail(path)
             attr == GetAttrOrNone(h, base, key)
             item == Subscript(h, base, key)
         IN IF child_paths # <<>>
            THEN IF Truthy(h, attr) THEN rsetattr(h, attr, child_paths, value)
                 ELSE IF item.err # "none" THEN item
                 ELSE rsetattr(h, item.val, child_paths, value)
            ELSE IF HasAttr(h, base, key) THEN SetAttrOn(h, base, key, value)
                 ELSE SetIfPresent(h, base, key, value)

\* super().__getitem__(keys) with the sequence itself as the key: a list is
\* unhashable, a tuple is hashable and is no key of a store of str keys
SuperGetItemSeq(h, isTuple) ==
    IF isTuple THEN Outcome(h, "KeyError", None) ELSE Outcome(h, "TypeError", None)

\* ConfigDict.__getitem__(keys) for a list or a tuple of keys; the starred
\* target child_keys is always a list
RECURSIVE GetItemPath(_, _, _, _)
GetItemPath(h, self, keys, isTuple) ==
    IF keys = <<>> THEN Outcome(h, "ValueError", None)
    ELSE LET child_keys == Tail(keys)
         IN IF child_keys # <<>>
            THEN GetItemPath(h, self, child_keys, FALSE)
            ELSE SuperGetItemSeq(h, isTuple)

\* ConfigDict.__getitem__(key) for a str
GetItemKey(h, self, key) == Subscript(h, Ref(self), key)

\* ConfigDict.__setitem__(key, value) for a str
SetItemKey(h, self, key, value) ==
    Outcome([h EXCEPT ![self].items = Put(@, key, value)], "none", None)

\* ConfigDict.__setitem__(keys, value) for a list of keys
SetItemPath(h, self, keys, value) == rsetattr(h, Ref(self), keys, value)

----------------------------------------------------------------------------
(* Dict literals and the heap *)

\* the objects a dict literal becomes when it is built (by the caller for
\* defaults, by yaml.safe_load for a file): each nested dict a plain dict of
\* its own.  AllocEntries gives the heap and the items; AllocDict the heap and
\* the reference to the new dict.
RECURSIVE AllocEntries(_, _)
RECURSIVE AllocDict(_, _)
AllocEntries(h, entries) ==
    IF entries = <<>> THEN [h |-> h, items |-> <<>>]
    ELSE LET e == Head(entries)
             first == IF e.v.t = "dict" THEN AllocDict(h, e.v.m)
                      ELSE [h |-> h, ref |-> e.v]
             rest == AllocEntries(first.h, Tail(entries))
         IN [h |-> rest.h, items |-> <<Entry(e.k, first.ref)>> \o rest.items]

AllocDict(h, entries) ==
    LET r == AllocEntries(h, entries)
    IN [h |-> Append(r.h, Obj("dict", r.items, <<>>)), ref |-> Ref(Len(r.h) + 1)]

\* dict.update(other), inherited by ConfigDict: each top-level item of other
\* is put into self as it is; a nested dict is shared, not copied or merged
RECURSIVE DictUpdate(_, _)
DictUpdate(items, other) ==
    IF other = <<>> THEN items
    ELSE DictUpdate(Put(items, Head(other).k, Head(other).v), Tail(other))

----------------------------------------------------------------------------
(* Config *)

\* Config.flatten(mapping) for a mapping of the heap: [path, value] pairs,
\* depth first, in the order of the items
RECURSIVE flatten(_, _)
RECURSIVE FlattenItems(_, _)
FlattenItems(h, items) ==
    IF items = <<>> THEN <<>>
    ELSE LET key == Head(items).k
             value == Head(items).v
             sub == flatten(h, value)
             here == IF IsObj(h, value)
                     THEN [i \in 1..Len(sub) |->
                             [path |-> <<key>> \o sub[i].path, value |-> sub[i].value]]
                     ELSE <<[path |-> <<key>>, value |-> value]>>
         IN here \o FlattenItems(h, Tail(items))

flatten(h, mapping) ==
    IF IsObj(h, mapping) THEN FlattenItems(h, h[mapping.n].items) ELSE <<>>

\* Config.get_env_var_name(path)
get_env_var_name(prefix, path) ==
    (Upper(prefix) \o <<"_">>) \o Join(<<"_">>, [i \in 1..Len(path) |-> Upper(path[i])])

\* as_env_file as it would be without the isinstance(value, str) test
RECURSIVE EnvFileLines_AnyLeaf(_, _)
EnvFileLines_AnyLeaf(prefix, flat) ==
    IF flat = <<>> THEN <<>>
    ELSE <<"e", "x", "p", "o", "r", "t", " ">>
         \o get_env_var_name(prefix, Head(flat).path)
         \o <<"=">> \o Head(flat).value.s \o <<"\n">>
         \o EnvFileLines_AnyLeaf(prefix, Tail(flat))

\* Config.as_env_file(): the script, a str
RECURSIVE EnvFileLines(_, _)
EnvFileLines(prefix, flat) ==
    IF flat = <<>> THEN <<>>
    ELSE (IF Head(flat).value.t = "str"
          THEN <<"e", "x", "p", "o", "r", "t", " ">>
               \o get_env_var_name(prefix, Head(flat).path)
               \o <<"=">> \o Head(flat).value.s \o <<"\n">>
          ELSE <<>>)
         \o EnvFileLines(prefix, Tail(flat))

as_env_file(h, self_store, prefix) == EnvFileLines(prefix, flatten(h, Ref(self_store)))

\* `files` as the loop of __init__ takes it: a single path becomes a list of
\* one, and the list is walked backward
FilesInLoadOrder(arg) ==
    LET lst == IF arg.is_str THEN <<arg.path>> ELSE arg.list
    IN [i \in 1..Len(lst) |-> lst[Len(lst) + 1 - i]]

\* the loop over reversed(files): a path that is a file is parsed (new
\* objects on the heap) and handed to store.update; a file that parses to None
\* (an empty file) makes update raise TypeError
RECURSIVE LoadFiles(_, _, _)
LoadFiles(h, self_store, fs) ==
    IF fs = <<>> THEN Outcome(h, "none", None)
    ELSE IF ~Head(fs).is_file THEN LoadFiles(h, self_store, Tail(fs))
    ELSE IF Head(fs).content.t # "dict" THEN Outcome(h, "TypeError", None)
    ELSE LET r == AllocEntries(h, Head(fs).content.m)
             h2 == [r.h EXCEPT ![self_store].items = DictUpdate(@, r.items)]
         IN LoadFiles(h2, self_store, Tail(fs))

InEnviron(env, name) == HasKey(env, name)

\* the loop over flatten(defaults): a path whose variable is in os.environ is
\* set in the store through ConfigDict.__setitem__; an error ends the loop
RECURSIVE ApplyEnviron(_, _, _, _, _)
ApplyEnviron(h, self_store, prefix, env, flat) ==
    IF flat = <<>> THEN Outcome(h, "none", None)
    ELSE LET config == Head(flat).path
             env_var == get_env_var_name(prefix, config)
         IN IF InEnviron(env, env_var)
            THEN LET r == SetItemPath(h, self_store, config, PyStr(Lookup(env, env_var)))
                 IN IF r.err # "none" THEN r
                    ELSE ApplyEnviron(r.h, self_store, prefix, env, Tail(flat))
            ELSE ApplyEnviron(h, self_store, prefix, env, Tail(flat))

----------------------------------------------------------------------------
(* Inputs *)

S_d == PyStr(<<"d">>)
S_f == PyStr(<<"f">>)
S_v == PyStr(<<"v">>)
S_hi == PyStr(<<"h", "i">>)

DefaultsChoices ==
    { PyDict(<<Entry(K_a, PyInt(1))>>),
      PyDict(<<Entry(K_a, PyDict(<<Entry(K_x, PyInt(1)), Entry(K_y, PyInt(2))>>))>>),
      PyDict(<<Entry(K_a, PyDict(<<Entry(K_x, S_d), Entry(K_y, PyInt(2))>>)), Entry(K_b, S_d)>>),
      PyDict(<<Entry(K_a, S_hi), Entry(K_b, PyInt(5)), Entry(K_c, PyBool(TRUE))>>),
      PyDict(<<Entry(K_get, S_d), Entry(K_a, PyDict(<<Entry(K_get, S_d)>>))>>),
      PyDict(<<Entry(K_a, PyDict(<<Entry(K_x, PyDict(<<Entry(K_y, S_d)>>))>>)),
               Entry(K_b, PyList(<<K_x>>))>>),
      PyDict(<<Entry(K_b, PyDict(<<>>)), Entry(K_a, PyStr(<<>>))>>) }

FileContents ==
    { PyDict(<<Entry(K_a, PyInt(2))>>),
      PyDict(<<Entry(K_a, PyInt(3))>>),
      PyDict(<<Entry(K_a, PyDict(<<Entry(K_x, PyInt(9))>>))>>),
      PyDict(<<Entry(K_a, PyDict(<<Entry(K_y, S_f)>>))>>),
      PyDict(<<Entry(K_a, S_hi), Entry(K_c, S_f)>>),
      PyDict(<<Entry(K_b, PyInt(5))>>),
      None }

File(is_file, content) == [is_file |-> is_file, content |-> content]

\* files that exist, and a path that names no file
MissingFile == File(FALSE, PyDict(<<Entry(K_a, PyInt(7))>>))
FileChoices == {File(TRUE, c) : c \in FileContents} \cup {MissingFile}

FileLists == UNION {[1..n -> FileChoices] : n \in 0..MaxFiles}

\* the files argument: a list of paths, or one path as a str
FilesArgs ==
    {[is_str |-> FALSE, path |-> MissingFile, list |-> l] : l \in FileLists}
    \cup {[is_str |-> TRUE, path |-> f, list |-> <<>>] : f \in FileChoices}

S_e == <<"e">>
S_e2 == <<"e", "2">>

EnvironChoices ==
    { <<>>,
      <<Entry(<<"_", "A">>, S_e)>>,
      <<Entry(<<"_", "A", "_", "X">>, S_e)>>,
      <<Entry(<<"_", "A", "_", "Y">>, S_e), Entry(<<"_", "B">>, S_e2)>>,
      <<Entry(<<"A", "P", "P", "_", "A", "_", "X">>, S_e),
        Entry(<<"A", "P", "P", "_", "A", "_", "Y">>, S_e2)>>,
      <<Entry(<<"A", "_", "X">>, S_e), Entry(<<"A">>, S_e)>>,
      <<Entry(<<"_", "G", "E", "T">>, S_e), Entry(<<"_", "A", "_", "G", "E", "T">>, S_e)>>,
      <<Entry(<<"_", "A", "_", "X", "_", "Y">>, S_e), Entry(<<"_", "B">>, S_e)>> }

Prefixes == {<<>>, <<"a", "p", "p">>}

NoOp == [op |-> "none", err |-> "none", key |-> <<>>, path |-> <<>>, isTuple |-> FALSE,
         value |-> None, result |-> None]

InitBuild ==
    /\ defaults0 \in DefaultsChoices
    /\ heap = AllocDict(<<>>, defaults0.m).h
    /\ defaults = Len(heap)
    /\ files \in FilesArgs
    /\ prefix_arg \in Prefixes
    /\ environ \in EnvironChoices
    /\ pc = "new"
    /\ store = 0
    /\ env_prefix = <<>>
    /\ nops = 0
    /\ last = NoOp

----------------------------------------------------------------------------
(* Config.__init__ *)

\* Config(files, defaults, env_prefix=prefix_arg): the whole constructor.  The
\* generator flatten(defaults) is walked while the loop sets values; a set never
\* adds or removes a key nor turns a leaf into a mapping, so the paths are those
\* of defaults when the loop starts.
InitOutcome(h, dflt, fs, prefix, env) ==
    LET h1 == Append(h, Obj("ConfigDict", <<>>, <<>>))
        self_store == Len(h1)
        h2 == [h1 EXCEPT ![self_store].items = DictUpdate(@, h[dflt].items)]
        loaded == LoadFiles(h2, self_store, FilesInLoadOrder(fs))
    IN IF loaded.err # "none" THEN loaded
       ELSE ApplyEnviron(loaded.h, self_store, prefix, env, flatten(loaded.h, Ref(dflt)))

Construct ==
    /\ pc = "new"
    /\ LET r == InitOutcome(heap, defaults, files, prefix_arg, environ)
       IN /\ heap' = r.h
          /\ pc' = IF r.err = "none" THEN "ready" ELSE "failed"
          /\ last' = [NoOp EXCEPT !.op = "init", !.err = r.err]
    /\ store' = Len(heap) + 1
    /\ env_prefix' = prefix_arg
    /\ UNCHANGED <<defaults, defaults0, files, prefix_arg, environ, nops>>

NextBuild == Construct

SpecBuild == InitBuild /\ [][NextBuild]_vars

----------------------------------------------------------------------------
(* Operations on a constructed Config and on its store *)

OpKeys == {K_a, K_b, K_get}
OpNames == {K_a, K_store, K_env_prefix}
OpValues == {S_v, PyInt(5)}
OpPaths ==
    { <<K_a>>, <<K_b>>, <<K_get>>, <<K_a, K_x>>, <<K_a, K_y>>, <<K_b, K_x>>,
      <<K_get, K_x>>, <<K_y, K_x>>, <<K_a, K_x, K_y>>, <<K_a, K_b, K_x>> }

CanOperate == pc = "ready" /\ nops < MaxOps

Frame == UNCHANGED <<pc, store, env_prefix, defaults, defaults0, files, prefix_arg, environ>>

\* config.store[key] = value
StoreSetKey(key, value) ==
    /\ CanOperate
    /\ LET r == SetItemKey(heap, store, key, value)
       IN /\ heap' = r.h
          /\ last' = [NoOp EXCEPT !.op = "setkey", !.key = key, !.value = value, !.err = r.err]
    /\ nops' = nops + 1
    /\ Frame

\* config.store[path] = value
StoreSetPath(path, value) ==
    /\ CanOperate
    /\ LET r == SetItemPath(heap, store, path, value)
       IN /\ heap' = r.h
          /\ last' = [NoOp EXCEPT !.op = "setpath", !.path = path, !.value = value, !.err = r.err]
    /\ nops' = nops + 1
    /\ Frame

\* config.store[key]
StoreGetKey(key) ==
    /\ CanOperate
    /\ LET r == GetItemKey(heap, store, key)
       IN /\ heap' = r.h
          /\ last' = [NoOp EXCEPT !.op = "getkey", !.key = key, !.err = r.err, !.result = r.val]
    /\ nops' = nops + 1
    /\ Frame

\* config.store[path], the path a list or a tuple
StoreGetPath(path, isTuple) ==
    /\ CanOperate
    /\ LET r == GetItemPath(heap, store, path, isTuple)
       IN /\ heap' = r.h
          /\ last' = [NoOp EXCEPT !.op = "getpath", !.path = path, !.isTuple = isTuple,
                                  !.err = r.err, !.result = r.val]
    /\ nops' = nops + 1
    /\ Frame

\* __setattr__ as object.__setattr__ would do it for a name the instance
\* already has: the assignment replaces the field
Config__setattr___Plain(h, self, key, value) ==
    IF key = K_env_prefix /\ value.t = "str"
    THEN [h |-> h, err |-> "none", store |-> self.store, env_prefix |-> value.s]
    ELSE [h |-> SetItemKey(h, self.store, key, value).h, err |-> "none",
          store |-> self.store, env_prefix |-> self.env_prefix]

\* Config.__setattr__(key, value): the fields of the Config ('store' and
\* 'env_prefix' of its __dict__) and the heap after config.key = value
Config__setattr__(h, self, key, value) ==
    LET r == SetItemKey(h, self.store, key, value)
    IN [h |-> r.h, err |-> r.err, store |-> self.store, env_prefix |-> self.env_prefix]

\* config.key = value
ConfigSetAttr(key, value) ==
    /\ CanOperate
    /\ LET r == Config__setattr__(heap, [store |-> store, env_prefix |-> env_prefix], key, value)
       IN /\ heap' = r.h
          /\ store' = r.store
          /\ env_prefix' = r.env_prefix
          /\ last' = [NoOp EXCEPT !.op = "setattr", !.key = key, !.value = value, !.err = r.err]
    /\ nops' = nops + 1
    /\ UNCHANGED <<pc, defaults, defaults0, files, prefix_arg, environ>>

\* config.attr: 'store' and 'env_prefix' are found in the instance's __dict__,
\* any other name goes to Config.__getattr__
ConfigAttr(h, self_store, prefix, attr) ==
    CASE attr = K_store -> Outcome(h, "none", Ref(self_store))
      [] attr = K_env_prefix -> Outcome(h, "none", PyStr(prefix))
      [] OTHER -> GetItemKey(h, self_store, attr)

ConfigGetAttr(attr) ==
    /\ CanOperate
    /\ LET r == ConfigAttr(heap, store, env_prefix, attr)
       IN /\ heap' = r.h
          /\ last' = [NoOp EXCEPT !.op = "getattr", !.key = attr, !.err = r.err, !.result = r.val]
    /\ nops' = nops + 1
    /\ Frame

\* config.as_env_file()
AsEnvFile ==
    /\ CanOperate
    /\ last' = [NoOp EXCEPT !.op = "as_env_file",
                            !.result = PyStr(as_env_file(heap, store, env_prefix))]
    /\ nops' = nops + 1
    /\ UNCHANGED heap
    /\ Frame

\* config.get_env_var_name(path)
GetEnvVarName(path) ==
    /\ CanOperate
    /\ last' = [NoOp EXCEPT !.op = "get_env_var_name", !.path = path,
                            !.result = PyStr(get_env_var_name(env_prefix, path))]
    /\ nops' = nops + 1
    /\ UNCHANGED heap
    /\ Frame

\* the constructions the operations start from
OpDefaults ==
    { PyDict(<<Entry(K_a, PyDict(<<Entry(K_x, S_d), Entry(K_y, PyInt(2))>>)), Entry(K_b, S_d)>>),
      PyDict(<<Entry(K_a, S_hi), Entry(K_b, PyInt(5)), Entry(K_c, PyBool(TRUE))>>),
      PyDict(<<Entry(K_a, PyDict(<<Entry(K_x, PyDict(<<Entry(K_y, S_d)>>))>>)),
               Entry(K_b, PyList(<<K_x>>))>>) }

Init ==
    /\ InitBuild
    /\ defaults0 \in OpDefaults
    /\ files.list = <<>>
    /\ files.is_str => files.path = File(TRUE, PyDict(<<Entry(K_a, PyDict(<<Entry(K_y, S_f)>>))>>))
    /\ environ \in {<<>>, <<Entry(<<"_", "A", "_", "X">>, S_e)>>}

Next ==
    \/ Construct
    \/ \E key \in OpKeys, value \in OpValues : StoreSetKey(key, value)
    \/ \E path \in OpPaths, value \in OpValues : StoreSetPath(path, value)
    \/ \E key \in OpKeys : StoreGetKey(key)
    \/ \E path \in OpPaths, isTuple \in BOOLEAN : StoreGetPath(path, isTuple)
    \/ \E key \in OpNames, value \in OpValues : ConfigSetAttr(key, value)
    \/ \E attr \in OpNames : ConfigGetAttr(attr)
    \/ AsEnvFile
    \/ \E path \in OpPaths : GetEnvVarName(path)

Spec == Init /\ [][Next]_vars

----------------------------------------------------------------------------
(* What the claims are stated with *)

Absent == [t |-> "absent", s |-> <<>>, n |-> 0, l |-> <<>>, m |-> <<>>]

\* the value a dict literal holds at a path, Absent when a segment is missing
RECURSIVE At(_, _)
At(v, path) ==
    IF path = <<>> THEN v
    ELSE IF v.t = "dict" /\ HasKey(v.m, Head(path))
         THEN At(Lookup(v.m, Head(path)), Tail(path))
         ELSE Absent

\* the paths of a dict literal that end in a value that is no dict
RECURSIVE LeafPathsOf(_)
LeafPathsOf(v) ==
    IF v.t = "dict"
    THEN UNION {{<<v.m[i].k>> \o q : q \in LeafPathsOf(v.m[i].v)} : i \in 1..Len(v.m)}
    ELSE {<<>>}

IsLeafAt(v, path) == At(v, path).t \notin {"absent", "dict"}

ProperPrefixes(path) == {SubSeq(path, 1, n) : n \in 1..(Len(path) - 1)}

\* the content of a value of the heap, as a literal (what == compares)
RECURSIVE Content(_, _)
Content(h, v) ==
    IF IsObj(h, v)
    THEN PyDict([i \in 1..Len(h[v.n].items) |->
                   Entry(h[v.n].items[i].k, Content(h, h[v.n].items[i].v))])
    ELSE v

\* the store and the caller's defaults as they are now
StoreContent == Content(heap, Ref(store))
DefaultsContent == Content(heap, Ref(defaults))

\* the files listed, first listed first, and those that exist and parse to a mapping
FilesListed == IF files.is_str THEN <<files.path>> ELSE files.list
ExistingFiles == SelectSeq(FilesListed, LAMBDA f : f.is_file /\ f.content.t = "dict")

EnvName(path) == get_env_var_name(prefix_arg, path)
NoEnvironMatch == \A path \in LeafPathsOf(defaults0) : ~InEnviron(environ, EnvName(path))

\* every source agrees on the shape above and at the path: none holds a leaf
\* at a proper prefix of it, none holds a mapping at it
SameShape(path) ==
    \A src \in {defaults0} \cup {ExistingFiles[i].content : i \in 1..Len(ExistingFiles)} :
        /\ At(src, path).t # "dict"
        /\ \A q \in ProperPrefixes(path) : ~IsLeafAt(src, q)

FilesDefining(path) == SelectSeq(ExistingFiles, LAMBDA f : IsLeafAt(f.content, path))

SourcesDefining(path) ==
    Len(FilesDefining(path)) + (IF IsLeafAt(defaults0, path) THEN 1 ELSE 0)

AllLeafPaths ==
    LeafPathsOf(defaults0)
    \cup UNION {LeafPathsOf(ExistingFiles[i].content) : i \in 1..Len(ExistingFiles)}

----------------------------------------------------------------------------
(* Claims on construction, under SpecBuild *)

\* C1: file precedence.  With no matching environment variable, every leaf
\* path that more than one source defines (the sources agreeing on its shape)
\* holds in the store the value of the first listed existing file that defines
\* it, and the value of defaults when no existing file defines it.
C1_FilePrecedence ==
    (pc = "ready" /\ NoEnvironMatch) =>
        \A path \in AllLeafPaths :
            (SourcesDefining(path) >= 2 /\ SameShape(path)) =>
                At(StoreContent, path) =
                    (IF FilesDefining(path) # <<>>
                     THEN At(FilesDefining(path)[1].content, path)
                     ELSE At(defaults0, path))

\* C2: environment always wins.  After construction, every leaf path of
\* defaults whose variable name is in the environment holds that variable's
\* value in the store, whatever the files gave.
C2_EnvironmentWins ==
    pc = "ready" =>
        \A path \in LeafPathsOf(defaults0) :
            InEnviron(environ, EnvName(path)) =>
                At(StoreContent, path) = PyStr(Lookup(environ, EnvName(path)))

\* C3: deep merge preserves siblings.  A nested key of defaults that no file
\* mentions, under a key where files hold nested mappings too, is still in
\* the store with its old value after the files are merged.
C3_DeepMergeKeepsSiblings ==
    (pc = "ready" /\ NoEnvironMatch) =>
        \A path \in LeafPathsOf(defaults0) :
            ( /\ Len(path) >= 2
              /\ \A i \in 1..Len(ExistingFiles) :
                    /\ At(ExistingFiles[i].content, path) = Absent
                    /\ \A q \in ProperPrefixes(path) : ~IsLeafAt(ExistingFiles[i].content, q)
              /\ \E i \in 1..Len(ExistingFiles) :
                    At(ExistingFiles[i].content, <<Head(path)>>).t = "dict" )
            => At(StoreContent, path) = At(defaults0, path)

\* C10: no aliasing of the caller's defaults.  The defaults mapping has the
\* same content after construction as before it, at every depth.
C10_DefaultsUntouched ==
    pc = "ready" => DefaultsContent = defaults0

----------------------------------------------------------------------------
(* Claims on the operations, under Spec *)

\* the chained single-key reads base[k1][k2]...[kn]
RECURSIVE ChainGet(_, _, _)
ChainGet(h, base, path) ==
    IF path = <<>> THEN Outcome(h, "none", base)
    ELSE LET r == Subscript(h, base, Head(path))
         IN IF r.err # "none" THEN r ELSE ChainGet(h, r.val, Tail(path))

\* C4: path set takes effect.  After store[[a, b]] = v, where a is a nested
\* container of the store, the chained read store[a][b] gives v, whether or
\* not b was present under a.
C4_PathSetTakesEffect ==
    ( /\ last.op = "setpath"
      /\ Len(last.path) = 2
      /\ At(StoreContent, <<last.path[1]>>).t = "dict" )
    => /\ last.err = "none"
       /\ ChainGet(heap, Ref(store), last.path).err = "none"
       /\ ChainGet(heap, Ref(store), last.path).val = last.value

\* C5: path get equals chained gets.  store[[k1, ..., kn]], every segment
\* existing, returns what store[k1]...[kn] returns; store[[k]] returns store[k].
C5_PathGetIsChainedGet ==
    ( /\ last.op = "getpath"
      /\ ChainGet(heap, Ref(store), last.path).err = "none" )
    => /\ last.err = "none"
       /\ last.result = ChainGet(heap, Ref(store), last.path).val

\* the name the specification describes: the upper-cased prefix, left out
\* when empty, and the upper-cased segments, joined by single underscores
DocumentedEnvName(prefix, path) ==
    Join(<<"_">>, (IF prefix = <<>> THEN <<>> ELSE <<Upper(prefix)>>)
                  \o [i \in 1..Len(path) |-> Upper(path[i])])

\* C6: get_env_var_name(path) is the upper-cased prefix and segments joined by
\* underscores, without the prefix segment (no leading underscore) when the
\* prefix is empty.
C6_EnvVarName ==
    last.op = "get_env_var_name" =>
        last.result = PyStr(DocumentedEnvName(env_prefix, last.path))

\* the lines `export NAME=value`, one for each leaf in `flat` that is a str
ExportLines(prefix, flat) ==
    LET strs == SelectSeq(flat, LAMBDA e : e.value.t = "str")
    IN [i \in 1..Len(strs) |->
          <<"e", "x", "p", "o", "r", "t", " ">> \o get_env_var_name(prefix, strs[i].path)
          \o <<"=">> \o strs[i].value.s]

RECURSIVE Unlines(_)
Unlines(lines) ==
    IF lines = <<>> THEN <<>> ELSE Head(lines) \o <<"\n">> \o Unlines(Tail(lines))

\* flat lists each leaf of the content once, with its value
ListsEveryLeaf(flat, content) ==
    /\ {flat[i].path : i \in 1..Len(flat)} = LeafPathsOf(content)
    /\ \A i, j \in 1..Len(flat) : flat[i].path = flat[j].path => i = j
    /\ \A i \in 1..Len(flat) : flat[i].value = At(content, flat[i].path)

\* C7: as_env_file gives one line `export NAME=value` for each leaf of the
\* store that is a str, in flatten order, NAME being get_env_var_name of the
\* leaf's path, no line for any other leaf, and leaves the store as it was.
C7_EnvFileLines ==
    [][ (last'.op = "as_env_file" /\ nops' = nops + 1) =>
           /\ heap' = heap
           /\ ListsEveryLeaf(flatten(heap, Ref(store)), StoreContent)
           /\ last'.result =
                 PyStr(Unlines(ExportLines(env_prefix, flatten(heap, Ref(store))))) ]_vars

C7_Witness ==
    /\ last.op = "as_env_file"
    /\ nops = 2
    /\ Len(last.result.s) > 0
    /\ \E path \in LeafPathsOf(StoreContent) : At(StoreContent, path).t \in {"int", "bool", "list"}
    /\ \E path \in LeafPathsOf(StoreContent) : Len(path) >= 2 /\ At(StoreContent, path).t = "str"

\* the child a segment names in a container: an attribute of that name, or
\* an entry of the mapping
NamesChild(h, base, key) ==
    HasAttr(h, base, key) \/ (IsObj(h, base) /\ HasKey(h[base.n].items, key))

ChildNamed(h, base, key) ==
    IF Truthy(h, GetAttrOrNone(h, base, key)) THEN GetAttrOrNone(h, base, key)
    ELSE Subscript(h, base, key).val

\* some segment before the last names no existing child
RECURSIVE MissingIntermediate(_, _, _)
MissingIntermediate(h, base, path) ==
    /\ Len(path) >= 2
    /\ \/ ~NamesChild(h, base, Head(path))
       \/ /\ Subscript(h, base, Head(path)).err = "none" \/ Truthy(h, GetAttrOrNone(h, base, Head(path)))
          /\ MissingIntermediate(h, ChildNamed(h, base, Head(path)), Tail(path))

\* C8: no implicit container creation.  A path set in which a segment before
\* the last names no existing child raises an error and leaves the store (and
\* every other object) exactly as it was.
C8_NoImplicitContainer ==
    [][ ( /\ last'.op = "setpath"
          /\ nops' = nops + 1
          /\ MissingIntermediate(heap, Ref(store), last'.path) )
        => (last'.err # "none" /\ heap' = heap) ]_vars

C8_Witness ==
    /\ last.op = "setpath"
    /\ last.err = "KeyError"
    /\ MissingIntermediate(heap, Ref(store), last.path)
    /\ ~HasKey(heap[store].items, last.path[1])

\* C9: transparent facade, immutable prefix.  After any attribute assignments,
\* `store` and `env_prefix` among the names, the Config holds the ConfigDict
\* its constructor made and the prefix it was constructed with, the last
\* assignment is in the store under its name, and get_env_var_name derives
\* names from the prefix given at construction.
C9_FacadeKeepsPrefix ==
    pc = "ready" =>
        /\ store = defaults + 1
        /\ heap[store].cls = "ConfigDict"
        /\ env_prefix = prefix_arg
        /\ last.op = "setattr" =>
              /\ last.err = "none"
              /\ HasKey(heap[store].items, last.key)
              /\ Lookup(heap[store].items, last.key) = last.value
        /\ last.op = "get_env_var_name" =>
              last.result = PyStr(get_env_var_name(prefix_arg, last.path))

C9_Witness ==
    /\ pc = "ready"
    /\ last.op = "get_env_var_name"
    /\ prefix_arg # <<>>
    /\ HasKey(heap[store].items, K_env_prefix)
    /\ Lookup(heap[store].items, K_env_prefix) = S_v

====
